---- MODULE Spec2Model ----
(***************************************************************************)
(* Model of the forum scraper of app.py: the abbreviated-number parser,    *)
(* the per-page thread extraction, the page loop of                        *)
(* IGNForumAnalyzer.scrape_pages, and filter_by_date.                      *)
(*                                                                         *)
(* Text is a sequence of one-character strings, so that strip, upper,      *)
(* replace, endswith and the numeric parsers act on characters.            *)
(* An optional element (the result of BeautifulSoup's find) is a sequence  *)
(* of length 0 (None) or 1 (the element).                                  *)
(***************************************************************************)
EXTENDS Integers, Sequences, FiniteSets, TLC

(***************************************************************************)
(* Bounds of the model.                                                    *)
(***************************************************************************)
\* longest count text enumerated over Alphabet
MaxTextLen == 4
\* largest num_pages passed to scrape_pages
MaxPages == 3
\* number of scrape_pages invocations on the one analyzer
MaxRuns == 2
\* most thread nodes on an enumerated page
MaxNodes == 2
\* most records of an enumerated dataset
MaxRows == 3
\* calendar days 0..MaxDay of the enumerated date windows
MaxDay == 3

(***************************************************************************)
(* Python str methods.                                                     *)
(***************************************************************************)
Whitespace == {" ", "\t", "\n", "\r"}

LowerLetters ==
  <<"a","b","c","d","e","f","g","h","i","j","k","l","m",
    "n","o","p","q","r","s","t","u","v","w","x","y","z">>

UpperLetters ==
  <<"A","B","C","D","E","F","G","H","I","J","K","L","M",
    "N","O","P","Q","R","S","T","U","V","W","X","Y","Z">>

UpperChar(c) ==
  IF \E i \in 1..Len(LowerLetters) : LowerLetters[i] = c
  THEN UpperLetters[CHOOSE i \in 1..Len(LowerLetters) : LowerLetters[i] = c]
  ELSE c

\* str.upper()
PyUpper(s) == [i \in 1..Len(s) |-> UpperChar(s[i])]

RECURSIVE LStrip(_)
LStrip(s) ==
  IF s # <<>> /\ Head(s) \in Whitespace THEN LStrip(Tail(s)) ELSE s

RECURSIVE RStrip(_)
RStrip(s) ==
  IF s # <<>> /\ s[Len(s)] \in Whitespace
  THEN RStrip(SubSeq(s, 1, Len(s) - 1))
  ELSE s

\* str.strip()
PyStrip(s) == RStrip(LStrip(s))

\* str.replace(',', '')
RemoveCommas(s) == SelectSeq(s, LAMBDA c : c # ",")

\* str.endswith(suffix) for a one-character suffix
EndsWith(s, suffix) == s # <<>> /\ s[Len(s)] = suffix

\* sub in s  (substring test)
Contains(sub, s) ==
  \E i \in 0..(Len(s) - Len(sub)) : SubSeq(s, i + 1, i + Len(sub)) = sub

(***************************************************************************)
(* Python int(str) and float(str).  The digit-group separator "_" and the  *)
(* exponent marker are not part of the enumerated alphabet; text holding   *)
(* either is outside the inputs of this model.                             *)
(***************************************************************************)
DigitChars == <<"0","1","2","3","4","5","6","7","8","9">>

IsDigit(c) == \E i \in 1..10 : DigitChars[i] = c

DigitVal(c) == (CHOOSE i \in 1..10 : DigitChars[i] = c) - 1

AllDigits(s) == \A i \in 1..Len(s) : IsDigit(s[i])

RECURSIVE DigitsVal(_)
DigitsVal(s) ==
  IF s = <<>> THEN 0
  ELSE 10 * DigitsVal(SubSeq(s, 1, Len(s) - 1)) + DigitVal(s[Len(s)])

HasSign(s) == s # <<>> /\ Head(s) \in {"+", "-"}

Unsigned(s) == IF HasSign(s) THEN Tail(s) ELSE s

IsNeg(s) == s # <<>> /\ Head(s) = "-"

\* int(s): [ok |-> FALSE] stands for ValueError
PyInt(s) ==
  LET t == PyStrip(s)
      body == Unsigned(t)
  IN IF body # <<>> /\ AllDigits(body)
     THEN [ok |-> TRUE, val |-> IF IsNeg(t) THEN 0 - DigitsVal(body) ELSE DigitsVal(body)]
     ELSE [ok |-> FALSE, val |-> 0]

(***************************************************************************)
(* IEEE-754 binary64, the type of Python's float.  A finite value is       *)
(* (-1)^neg * bits * 2^exp with bits a most-significant-first bit string   *)
(* of at most MantissaBits bits; the mantissa is kept as a bit string      *)
(* because it does not fit the integers of the model checker.              *)
(***************************************************************************)
MantissaBits == 53

\* number of bits of n, 0 <= n < 2^31
BitLen(n) ==
  CHOOSE k \in 0..31 : /\ (k = 31 \/ n < 2^k)
                       /\ (k = 0 \/ n >= 2^(k - 1))

NatBits(n) == [i \in 1..BitLen(n) |-> (n \div 2^(BitLen(n) - i)) % 2]

RECURSIVE BitsVal(_)
BitsVal(bits) ==
  IF Len(bits) <= 1 THEN (IF bits = <<>> THEN 0 ELSE bits[1])
  ELSE LET h == Len(bits) \div 2
       IN BitsVal(SubSeq(bits, 1, h)) * 2^(Len(bits) - h)
          + BitsVal(SubSeq(bits, h + 1, Len(bits)))

StripZeros(bits) ==
  LET ones == {i \in 1..Len(bits) : bits[i] = 1}
  IN IF ones = {} THEN <<>>
     ELSE SubSeq(bits, CHOOSE i \in ones : \A j \in ones : i <= j, Len(bits))

\* bits + 1
IncBits(bits) ==
  LET zeros == {i \in 1..Len(bits) : bits[i] = 0}
      k == CHOOSE i \in zeros : \A j \in zeros : j <= i
  IN IF zeros = {} THEN <<1>> \o [i \in 1..Len(bits) |-> 0]
     ELSE [i \in 1..Len(bits) |-> IF i < k THEN bits[i] ELSE IF i = k THEN 1 ELSE 0]

\* round-to-nearest, ties-to-even, of bits * 2^exp (plus a non-zero residue
\* below the last bit when sticky) to MantissaBits significant bits
RoundNearestEven(bits, exp, sticky) ==
  IF Len(bits) <= MantissaBits THEN [bits |-> bits, exp |-> exp]
  ELSE LET keep == SubSeq(bits, 1, MantissaBits)
           rnd  == bits[MantissaBits + 1]
           st   == sticky \/ \E i \in (MantissaBits + 2)..Len(bits) : bits[i] = 1
           e    == exp + Len(bits) - MantissaBits
           up   == IncBits(keep)
       IN IF rnd = 1 /\ (st \/ keep[MantissaBits] = 1)
          THEN IF Len(up) > MantissaBits
               THEN [bits |-> SubSeq(up, 1, MantissaBits), exp |-> e + 1]
               ELSE [bits |-> up, exp |-> e]
          ELSE [bits |-> keep, exp |-> e]

RECURSIVE Pow10(_)
Pow10(d) == IF d = 0 THEN 1 ELSE 10 * Pow10(d - 1)

\* 2^i modulo D, by repeated squaring
RECURSIVE Pow2Mod(_, _)
Pow2Mod(i, D) ==
  IF i = 0 THEN 1 % D
  ELSE IF i % 2 = 0
       THEN LET h == Pow2Mod(i \div 2, D) IN (h * h) % D
       ELSE (2 * Pow2Mod(i - 1, D)) % D

\* what is left of r / D below its first i binary places, times D * 2^i
FracRem(r, D, i) == (r * Pow2Mod(i, D)) % D

\* the i-th binary place of r / D, 0 <= r < D
FracBit(r, D, i) == IF 2 * FracRem(r, D, i - 1) >= D THEN 1 ELSE 0

\* the binary64 nearest to N / 10^d: the binary expansion of N / 10^d is
\* taken far enough to hold MantissaBits + 1 significant bits, the rest is
\* the sticky residue
ToDouble(N, d) ==
  LET D  == Pow10(d)
      r  == N % D
      n  == MantissaBits + 1 + BitLen(D)
      ib == NatBits(N \div D)
      fb == [i \in 1..n |-> FracBit(r, D, i)]
  IN RoundNearestEven(StripZeros(ib \o fb), 0 - n, FracRem(r, D, n) # 0)

\* float(s): [ok |-> FALSE] stands for ValueError
PyFloat(s) ==
  LET t     == PyStrip(s)
      body  == Unsigned(t)
      dots  == {i \in 1..Len(body) : body[i] = "."}
      dot   == IF dots = {} THEN Len(body) + 1 ELSE CHOOSE i \in dots : TRUE
      ipart == SubSeq(body, 1, dot - 1)
      fpart == SubSeq(body, dot + 1, Len(body))
      bad   == [ok |-> FALSE, kind |-> "nan", neg |-> FALSE, bits |-> <<>>, exp |-> 0]
  IN IF PyUpper(body) \in {<<"I","N","F">>, <<"I","N","F","I","N","I","T","Y">>}
     THEN [ok |-> TRUE, kind |-> "inf", neg |-> IsNeg(t), bits |-> <<>>, exp |-> 0]
     ELSE IF PyUpper(body) = <<"N","A","N">>
     THEN [ok |-> TRUE, kind |-> "nan", neg |-> IsNeg(t), bits |-> <<>>, exp |-> 0]
     ELSE IF /\ Cardinality(dots) <= 1
             /\ AllDigits(ipart) /\ AllDigits(fpart)
             /\ ipart \o fpart # <<>>
     THEN LET f == ToDouble(DigitsVal(ipart \o fpart), Len(fpart))
          IN [ok |-> TRUE, kind |-> "fin", neg |-> IsNeg(t),
              bits |-> f.bits, exp |-> f.exp]
     ELSE bad

\* multi-word arithmetic on least-significant-first words below Base, whose
\* pairwise products fit the integers of the model checker
Base == 2^15

LimbBits == BitLen(Base) - 1

ToLimbs(bits) ==
  [j \in 1..((Len(bits) + LimbBits - 1) \div LimbBits) |->
     LET hi == Len(bits) - LimbBits * (j - 1)
         lo == IF hi - LimbBits + 1 < 1 THEN 1 ELSE hi - LimbBits + 1
     IN BitsVal(SubSeq(bits, lo, hi))]

FromLimbs(limbs) ==
  StripZeros([i \in 1..(LimbBits * Len(limbs)) |->
     LET j == Len(limbs) - ((i - 1) \div LimbBits)
         k == LimbBits - 1 - ((i - 1) % LimbBits)
     IN (limbs[j] \div 2^k) % 2])

\* limbs * s + carry, 0 <= s < Base
RECURSIVE MulLimbs(_, _, _)
MulLimbs(limbs, s, carry) ==
  IF limbs = <<>> THEN (IF carry = 0 THEN <<>> ELSE <<carry>>)
  ELSE LET t == Head(limbs) * s + carry
       IN <<t % Base>> \o MulLimbs(Tail(limbs), s, t \div Base)

RECURSIVE AddLimbs(_, _, _)
AddLimbs(a, b, carry) ==
  IF a = <<>> /\ b = <<>> THEN (IF carry = 0 THEN <<>> ELSE <<carry>>)
  ELSE LET x == IF a = <<>> THEN 0 ELSE Head(a)
           y == IF b = <<>> THEN 0 ELSE Head(b)
           t == x + y + carry
       IN <<t % Base>> \o AddLimbs(IF a = <<>> THEN a ELSE Tail(a),
                                   IF b = <<>> THEN b ELSE Tail(b), t \div Base)

\* the exact product bits * m as a bit string, 0 <= m < Base * Base
MulBits(bits, m) ==
  LET L == ToLimbs(bits)
  IN FromLimbs(AddLimbs(MulLimbs(L, m % Base, 0),
                        <<0>> \o MulLimbs(L, m \div Base, 0), 0))

\* x * m for a float x and an int m (converted exactly): correctly rounded
FloatTimes(x, m) ==
  IF x.kind # "fin" THEN x
  ELSE LET p == RoundNearestEven(MulBits(x.bits, m), x.exp, FALSE)
       IN [x EXCEPT !.bits = p.bits, !.exp = p.exp]

\* int(x) for a float x: truncation toward zero; infinity raises
\* OverflowError and NaN raises ValueError
FloatToInt(x) ==
  IF x.kind = "inf" THEN [exc |-> "OverflowError", val |-> 0]
  ELSE IF x.kind = "nan" THEN [exc |-> "ValueError", val |-> 0]
  ELSE LET mag == IF x.exp >= 0
                  THEN BitsVal(x.bits \o [i \in 1..x.exp |-> 0])
                  ELSE BitsVal(SubSeq(x.bits, 1, Len(x.bits) + x.exp))
       IN [exc |-> "none", val |-> IF x.neg THEN 0 - mag ELSE mag]

(***************************************************************************)
(* IGNForumAnalyzer._convert_abbreviated_number                            *)
(***************************************************************************)
\* the multipliers dict, in insertion order
multipliers ==
  << [suffix |-> "K", multiplier |-> 1000],
     [suffix |-> "M", multiplier |-> 1000000],
     [suffix |-> "B", multiplier |-> 1000000000] >>

\* body of the try block of one matching suffix: only ValueError is caught
ConvertSuffixed(t, multiplier) ==
  LET f == PyFloat(SubSeq(t, 1, Len(t) - 1))
      n == FloatToInt(FloatTimes(f, multiplier))
  IN IF ~f.ok THEN [exc |-> "none", val |-> 0]
     ELSE IF n.exc = "ValueError" THEN [exc |-> "none", val |-> 0]
     ELSE n

\* the result is [exc, val]: exc = "none" and the returned integer, or the
\* name of the exception that leaves the function
ConvertAbbreviatedNumber(text0) ==
  LET t == RemoveCommas(PyUpper(PyStrip(text0)))
      hits == {i \in 1..Len(multipliers) : EndsWith(t, multipliers[i].suffix)}
  IN IF hits # {}
     THEN ConvertSuffixed(t, multipliers[CHOOSE i \in hits : \A j \in hits : i <= j].multiplier)
     ELSE LET n == PyInt(t)
          IN [exc |-> "none", val |-> IF n.ok THEN n.val ELSE 0]

(***************************************************************************)
(* Page markup.  A page is the sequence of its thread nodes, in document   *)
(* order.  A thread node has                                               *)
(*   title  : None or the text of div.structItem-title                     *)
(*   author : None or the text of a.username                               *)
(*   time   : None or the datetime attribute of the time element           *)
(*   stats  : None or the dl elements of div.structItem-cell--meta, each   *)
(*            with an optional dt text and an optional dd text             *)
(* A datetime attribute is [kind, day, hour, off]: kind "empty" is the     *)
(* empty or missing attribute, "unparsable" is text pd.to_datetime         *)
(* rejects, "naive" is a time without UTC offset and "aware" a local       *)
(* day/hour with a UTC offset of off hours.                                *)
(***************************************************************************)
None == <<>>

Some(x) == <<x>>

\* pd.to_datetime(attr).tz_convert(pytz.UTC): the UTC instant in hours since
\* day 0, or the exception raised (tz_convert raises TypeError on a naive
\* timestamp)
ToUtcTimestamp(attr) ==
  IF attr.kind = "unparsable" THEN [exc |-> "ValueError", ts |-> 0]
  ELSE IF attr.kind = "naive" THEN [exc |-> "TypeError", ts |-> 0]
  ELSE [exc |-> "none", ts |-> attr.day * 24 + attr.hour - attr.off]

RepliesLabel == <<"R","e","p","l","i","e","s">>

ViewsLabel == <<"V","i","e","w","s">>

UnknownAuthor == <<"U","n","k","n","o","w","n">>

\* the loop over dl elements (lines 143-150): acc is [exc, replies, views];
\* an exception raised by a conversion ends the loop
RECURSIVE ScanStats(_, _)
ScanStats(dls, acc) ==
  IF dls = <<>> \/ acc.exc # "none" THEN acc
  ELSE LET dl == Head(dls)
           n  == ConvertAbbreviatedNumber(dl.dd[1])
       IN IF dl.dt # None /\ dl.dd # None
          THEN IF Contains(RepliesLabel, dl.dt[1])
               THEN ScanStats(Tail(dls), [exc |-> n.exc, replies |-> n.val, views |-> acc.views])
               ELSE IF Contains(ViewsLabel, dl.dt[1])
               THEN ScanStats(Tail(dls), [exc |-> n.exc, replies |-> acc.replies, views |-> n.val])
               ELSE ScanStats(Tail(dls), acc)
          ELSE ScanStats(Tail(dls), acc)

\* the body of the try block for one thread node (lines 126-158):
\* [exc, rec] with exc the exception caught at line 159 ("none" if none was
\* raised) and rec the record appended, None if nothing was appended
ExtractThread(thread) ==
  LET author == IF thread.author # None THEN PyStrip(thread.author[1]) ELSE UnknownAuthor
      t      == ToUtcTimestamp(thread.time[1])
      stats  == IF thread.stats # None
                THEN ScanStats(thread.stats[1], [exc |-> "none", replies |-> 0, views |-> 0])
                ELSE [exc |-> "none", replies |-> 0, views |-> 0]
  IN IF thread.title = None THEN [exc |-> "AttributeError", rec |-> None]
     ELSE IF thread.time = None \/ thread.time[1].kind = "empty"
     THEN [exc |-> "none", rec |-> None]
     ELSE IF t.exc # "none" THEN [exc |-> t.exc, rec |-> None]
     ELSE IF stats.exc # "none" THEN [exc |-> stats.exc, rec |-> None]
     ELSE [exc |-> "none",
           rec |-> Some([title |-> PyStrip(thread.title[1]),
                         author |-> author,
                         timestamp |-> t.ts,
                         replies |-> stats.replies,
                         views |-> stats.views])]

\* the loop over the thread nodes of a page (lines 124-160) appending to
\* self.posts_data: every exception is caught per node
RECURSIVE ExtractThreads(_, _)
ExtractThreads(threads, posts) ==
  IF threads = <<>> THEN posts
  ELSE ExtractThreads(Tail(threads), posts \o ExtractThread(Head(threads)).rec)

\* pd.DataFrame(list of dicts): the columns are the keys of the dicts, an
\* empty list gives a frame without columns
RecordColumns == {"title", "author", "timestamp", "replies", "views"}

DataFrame(posts) ==
  [columns |-> IF posts = <<>> THEN {} ELSE RecordColumns, rows |-> posts]

(***************************************************************************)
(* filter_by_date and the column assignment of create_wrapped_report.  A   *)
(* DataFrame is an object: frames is the heap of DataFrame objects and a   *)
(* reference is an index into it.  A row is a function from column name to *)
(* value.  A calendar date is a day number and a timestamp is in hours, so *)
(* Series.dt.date is the day the hour falls in.                            *)
(***************************************************************************)
\* df.empty
IsEmpty(frame) == frame.rows = <<>> \/ frame.columns = {}

\* Series.dt.date of a UTC timestamp
DateOf(ts) == ts \div 24

\* Series.dt.hour of a UTC timestamp
HourOf(ts) == ts % 24

\* df[name] = values: the column is added to (or replaced in) the frame
SetColumn(frame, name, values) ==
  [columns |-> frame.columns \cup {name},
   rows |-> [i \in 1..Len(frame.rows) |->
               [c \in (DOMAIN frame.rows[i]) \cup {name} |->
                  IF c = name THEN values[i] ELSE frame.rows[i][c]]]]

\* df['timestamp'].dt.date
DateColumn(frame) == [i \in 1..Len(frame.rows) |-> DateOf(frame.rows[i]["timestamp"])]

\* filtered_df['timestamp'].dt.hour
HourColumn(frame) == [i \in 1..Len(frame.rows) |-> HourOf(frame.rows[i]["timestamp"])]

\* the mask with the start of the window excluded
InWindowExclusive(row, start, end) == row["date"] > start /\ row["date"] <= end

\* the boolean mask of line 191
InWindow(row, start, end) == row["date"] >= start /\ row["date"] <= end

\* df[mask].copy(): a new frame holding the selected rows in their order
SelectRows(frame, start, end) ==
  [columns |-> frame.columns,
   rows |-> SelectSeq(frame.rows, LAMBDA r : InWindow(r, start, end))]

(***************************************************************************)
(* Inputs of the model.                                                    *)
(***************************************************************************)
\* sequences over S of length at most n
SeqsUpTo(S, n) == UNION {[1..k -> S] : k \in 0..n}

\* characters of the enumerated count texts
Alphabet == {"1", "4", ".", ",", "-", " ", "k", "I", "N", "F"}

\* count texts beyond the enumeration: the examples of the documentation,
\* each suffix, and counts as the forum prints them
ExtraTexts ==
  { <<"3","2","K">>, <<"1",".","5","M">>, <<"1",",","2","3","4">>,
    <<"a","b","c">>, <<"1","B">>, <<"4",".","1","M">>, <<"8",".","2","m">>,
    <<"3","2",".","3","K">>, <<" ","1","6",".","4","M"," ">>,
    <<"n","a","n","K">>, <<"+","7">>, <<"-","1",".","5","k">> }

Texts == SeqsUpTo(Alphabet, MaxTextLen) \cup ExtraTexts

Attr(kind, day, hour, off) == [kind |-> kind, day |-> day, hour |-> hour, off |-> off]

Times ==
  { None,
    Some(Attr("empty", 0, 0, 0)),
    Some(Attr("unparsable", 0, 0, 0)),
    Some(Attr("naive", 1, 10, 0)),
    Some(Attr("aware", 1, 23, 0 - 5)),
    Some(Attr("aware", 2, 1, 2)) }

Dl(dt, dd) == [dt |-> dt, dd |-> dd]

LikesLabel == <<"L","i","k","e","s">>

StatsBlocks ==
  { None,
    Some(<<>>),
    Some(<< Dl(Some(RepliesLabel), Some(<<"3","2">>)),
            Dl(Some(ViewsLabel), Some(<<"1",".","5","K">>)) >>),
    Some(<< Dl(Some(ViewsLabel), Some(<<"4",".","1","M">>)),
            Dl(Some(LikesLabel), Some(<<"7">>)) >>),
    Some(<< Dl(Some(RepliesLabel), Some(<<"-","5">>)) >>),
    Some(<< Dl(Some(ViewsLabel), Some(<<"i","n","f","K">>)),
            Dl(Some(RepliesLabel), Some(<<"3","2">>)) >>),
    Some(<< Dl(Some(RepliesLabel), None),
            Dl(None, Some(<<"9">>)),
            Dl(Some(<<"N","e","w"," ">> \o RepliesLabel), Some(<<"1",",","2","3","4">>)) >>) }

Thread(title, author, time, stats) ==
  [title |-> title, author |-> author, time |-> time, stats |-> stats]

TitleA == <<" ","A"," ">>

TitleB == <<"B">>

AuthorA == <<"a","l"," ">>

\* thread nodes of the pages given to extract_post_data
Threads ==
  {Thread(Some(TitleA), Some(AuthorA), tm, st) : tm \in Times, st \in StatsBlocks}
  \cup {Thread(Some(TitleB), None, tm, None) : tm \in Times}
  \cup {Thread(None, Some(AuthorA), tm, Some(<<>>)) : tm \in Times}

ExtractPages == SeqsUpTo(Threads, MaxNodes)

\* thread nodes of the pages served during a scrape: a complete node, a node
\* without author and statistics, a node without title, a node with a
\* negative count
CompleteThread ==
  Thread(Some(TitleA), Some(AuthorA), Some(Attr("aware", 1, 23, 0 - 5)),
         Some(<< Dl(Some(RepliesLabel), Some(<<"3","2">>)),
                 Dl(Some(ViewsLabel), Some(<<"1",".","5","K">>)) >>))

BareThread == Thread(Some(TitleB), None, Some(Attr("aware", 2, 1, 2)), None)

UntitledThread ==
  Thread(None, Some(AuthorA), Some(Attr("aware", 2, 1, 2)), Some(<<>>))

NegativeThread ==
  Thread(Some(TitleA), None, Some(Attr("aware", 0, 5, 0)),
         Some(<< Dl(Some(RepliesLabel), Some(<<"-","5">>)) >>))

\* pages served during a scrape: a page without thread nodes and two pages
\* of two nodes
WebPages ==
  { <<>>, <<CompleteThread, BareThread>>, <<UntitledThread, NegativeThread>> }

\* records of the datasets given to filter_by_date: one per day and per
\* first and last hour of the day
Row(ts) ==
  [title |-> <<"A">>, author |-> <<"a","l">>, timestamp |-> ts,
   replies |-> 0, views |-> 0]

FilterRows == {Row(d * 24 + h) : d \in 0..MaxDay, h \in {0, 23}}

Datasets == {DataFrame(rows) : rows \in SeqsUpTo(FilterRows, MaxRows)}

Dates == 0..MaxDay

(***************************************************************************)
(* State.                                                                  *)
(***************************************************************************)
VARIABLES
  text,          \* argument of _convert_abbreviated_number
  result,        \* None before the call, then its outcome [exc, val]
  pc,            \* position of the running call
  runs,          \* scrape_pages calls started on the analyzer
  num_pages,     \* argument of scrape_pages
  page,          \* loop variable of scrape_pages
  soup,          \* value returned by fetch_page: None or the page
  posts_data,    \* self.posts_data
  progress_bar,  \* value shown by the progress bar, <<numerator, denominator>>
  status_text,   \* text shown by the status placeholder
  fetch_log,     \* requests of this call, in order: [page, soup]
  progress_log,  \* values passed to progress_bar.progress by this call
  ret,           \* None, or the DataFrame returned by scrape_pages
  frames,        \* heap of DataFrame objects
  df,            \* reference to the frame passed to filter_by_date
  df_before,     \* that frame as it was when filter_by_date was called
  start_date,    \* window of filter_by_date
  end_date,
  filtered_df,   \* reference to the frame returned by filter_by_date, 0 if none
  calls,         \* the frames of concurrent scrape_pages invocations
  analyzers,     \* self.posts_data of each IGNForumAnalyzer object
  top_views,     \* None, or the table of the most viewed threads
  top_replies,   \* None, or the table of the most replied threads
  hourly_counts, \* None, or the table of thread counts by hour
  session,       \* st.session_state: None, or the stored report inputs
  session_before, \* st.session_state as the running script found it
  clicked,       \* the button whose click started the running script
  top_thread     \* None, or the outcome of the infographic's top thread

convVars == <<text, result>>

scrapeVars ==
  <<runs, num_pages, page, soup, posts_data, progress_bar, status_text,
    fetch_log, progress_log, ret>>

filterVars == <<frames, df, df_before, start_date, end_date, filtered_df>>

concVars == <<calls, analyzers>>

reportVars == <<top_views, top_replies, hourly_counts>>

mainVars == <<session, session_before, clicked, top_thread>>

restVars == <<concVars, reportVars, mainVars>>

vars == <<convVars, pc, scrapeVars, filterVars, restVars>>

\* IGNForumAnalyzer.__init__ and no call under way
AnalyzerInit ==
  /\ runs = 0
  /\ num_pages = 0
  /\ page = 0
  /\ soup = None
  /\ posts_data = <<>>
  /\ progress_bar = <<0, 1>>
  /\ status_text = "none"
  /\ fetch_log = <<>>
  /\ progress_log = <<>>
  /\ ret = None

NoConversion == text = <<>> /\ result = None

NoFilter ==
  /\ frames = <<>>
  /\ df = 0
  /\ df_before = DataFrame(<<>>)
  /\ start_date = 0
  /\ end_date = 0
  /\ filtered_df = 0

\* the analyzers as constructed (line 82) and no invocation made
NoCalls ==
  /\ calls = <<>>
  /\ analyzers = <<>>

\* no report built
NoReport ==
  /\ top_views = None
  /\ top_replies = None
  /\ hourly_counts = None

\* a new browser session: nothing stored, no button clicked
NoMain ==
  /\ session = None
  /\ session_before = None
  /\ clicked = "none"
  /\ top_thread = None

NoRest == NoCalls /\ NoReport /\ NoMain

(***************************************************************************)
(* IGNForumAnalyzer.scrape_pages, one action per step of the loop.         *)
(***************************************************************************)
\* the call without the reset of the accumulator
ScrapeStartKeep(n) ==
  /\ pc \in {"idle", "done"}
  /\ runs < MaxRuns
  /\ runs' = runs + 1
  /\ num_pages' = n
  /\ posts_data' = posts_data
  /\ progress_bar' = <<0, 1>>
  /\ status_text' = "empty"
  /\ page' = 1
  /\ soup' = None
  /\ fetch_log' = <<>>
  /\ progress_log' = <<>>
  /\ ret' = None
  /\ pc' = "loop"
  /\ UNCHANGED <<restVars, convVars, filterVars>>

\* lines 162-167: the call resets the accumulator and creates the progress
\* bar at 0 and the status placeholder
ScrapeStart(n) ==
  /\ pc \in {"idle", "done"}
  /\ runs < MaxRuns
  /\ runs' = runs + 1
  /\ num_pages' = n
  /\ posts_data' = <<>>
  /\ progress_bar' = <<0, 1>>
  /\ status_text' = "empty"
  /\ page' = 1
  /\ soup' = None
  /\ fetch_log' = <<>>
  /\ progress_log' = <<>>
  /\ ret' = None
  /\ pc' = "loop"
  /\ UNCHANGED <<restVars, convVars, filterVars>>

\* lines 169-171 and fetch_page: one GET for the current page; the server
\* answers with a page, or the request fails and fetch_page returns None
FetchPage(answer) ==
  /\ pc = "loop"
  /\ page <= num_pages
  /\ status_text' = "scraping"
  /\ soup' = answer
  /\ fetch_log' = Append(fetch_log, [page |-> page, soup |-> answer])
  /\ pc' = "fetched"
  /\ UNCHANGED <<restVars, convVars, filterVars, runs, num_pages, page, posts_data,
                 progress_bar, progress_log, ret>>

\* lines 172-173 and extract_post_data; a BeautifulSoup object is true even
\* when the page has no node
ExtractPostData ==
  /\ pc = "fetched"
  /\ soup # None
  /\ posts_data' = ExtractThreads(soup[1], posts_data)
  /\ pc' = "progress"
  /\ UNCHANGED <<restVars, convVars, filterVars, runs, num_pages, page, soup,
                 progress_bar, status_text, fetch_log, progress_log, ret>>

\* a failed fetch that leaves the loop
SkipPageBreak ==
  /\ pc = "fetched"
  /\ soup = None
  /\ page' = num_pages + 1
  /\ pc' = "loop"
  /\ UNCHANGED <<restVars, convVars, filterVars, runs, num_pages, soup, posts_data,
                 progress_bar, status_text, fetch_log, progress_log, ret>>

\* line 172 when fetch_page returned None
SkipPage ==
  /\ pc = "fetched"
  /\ soup = None
  /\ pc' = "progress"
  /\ UNCHANGED <<restVars, convVars, filterVars, scrapeVars>>

\* progress reported only for a page that was fetched
ReportProgressOnSuccess ==
  /\ pc = "progress"
  /\ progress_bar' = IF soup # None THEN <<page, num_pages>> ELSE progress_bar
  /\ progress_log' = IF soup # None THEN Append(progress_log, <<page, num_pages>>)
                     ELSE progress_log
  /\ page' = page + 1
  /\ pc' = "loop"
  /\ UNCHANGED <<restVars, convVars, filterVars, runs, num_pages, soup, posts_data,
                 status_text, fetch_log, ret>>

\* line 174 and the step of the for loop
ReportProgress ==
  /\ pc = "progress"
  /\ progress_bar' = <<page, num_pages>>
  /\ progress_log' = Append(progress_log, <<page, num_pages>>)
  /\ page' = page + 1
  /\ pc' = "loop"
  /\ UNCHANGED <<restVars, convVars, filterVars, runs, num_pages, soup, posts_data,
                 status_text, fetch_log, ret>>

\* lines 176-177, when range(1, num_pages + 1) is exhausted
ScrapeReturn ==
  /\ pc = "loop"
  /\ page > num_pages
  /\ status_text' = "complete"
  /\ ret' = Some(DataFrame(posts_data))
  /\ pc' = "done"
  /\ UNCHANGED <<restVars, convVars, filterVars, runs, num_pages, page, soup,
                 posts_data, progress_bar, fetch_log, progress_log>>

Init ==
  /\ pc = "idle"
  /\ AnalyzerInit
  /\ NoConversion
  /\ NoFilter
  /\ NoRest

Next ==
  \/ \E n \in 0..MaxPages : ScrapeStart(n)
  \/ \E answer \in {None} \cup {Some(p) : p \in WebPages} : FetchPage(answer)
  \/ ExtractPostData
  \/ SkipPage
  \/ ReportProgress
  \/ ScrapeReturn

Spec == Init /\ [][Next]_vars

(***************************************************************************)
(* extract_post_data on one page, with an empty accumulator.               *)
(***************************************************************************)
InitExtract ==
  /\ pc = "fetched"
  /\ runs = 0
  /\ num_pages = 0
  /\ page = 0
  /\ soup \in {Some(p) : p \in ExtractPages}
  /\ posts_data = <<>>
  /\ progress_bar = <<0, 1>>
  /\ status_text = "scraping"
  /\ fetch_log = <<>>
  /\ progress_log = <<>>
  /\ ret = None
  /\ NoConversion
  /\ NoFilter
  /\ NoRest

NextExtract == ExtractPostData

SpecExtract == InitExtract /\ [][NextExtract]_vars

(***************************************************************************)
(* _convert_abbreviated_number on one text.                                *)
(***************************************************************************)
Convert ==
  /\ pc = "convert"
  /\ result' = Some(ConvertAbbreviatedNumber(text))
  /\ pc' = "converted"
  /\ UNCHANGED <<restVars, text, scrapeVars, filterVars>>

InitConv ==
  /\ pc = "convert"
  /\ text \in Texts
  /\ result = None
  /\ AnalyzerInit
  /\ NoFilter
  /\ NoRest

NextConv == Convert

SpecConv == InitConv /\ [][NextConv]_vars

(***************************************************************************)
(* The tables of create_wrapped_report and create_infographic.             *)
(***************************************************************************)
\* n of the nlargest calls of lines 395 and 418
TopN == 10

\* range(24) of line 547
HoursPerDay == 24

\* the values of a column, by row position
ColumnValues(frame, name) ==
  [i \in 1..Len(frame.rows) |-> frame.rows[i][name]]

\* position of row i when the rows are ordered by descending value and rows
\* of equal value stay in their order (argsort(kind="mergesort") of -values)
StableRank(values, i) ==
  Cardinality({j \in DOMAIN values :
                 values[j] > values[i] \/ (values[j] = values[i] /\ j < i)}) + 1

\* the row positions in that order
StableDescending(values) ==
  [p \in 1..Len(values) |-> CHOOSE i \in DOMAIN values : StableRank(values, i) = p]

\* Series.sort_values(ascending=False) with the default kind="quicksort": the
\* values come out in descending order, and the sort makes no promise about
\* the order of equal values, so every order of them is possible
RECURSIVE DescendingOrders(_, _)
DescendingOrders(values, todo) ==
  IF todo = {} THEN {<<>>}
  ELSE LET largest == {i \in todo : \A j \in todo : values[j] <= values[i]}
       IN UNION {{<<i>> \o rest : rest \in DescendingOrders(values, todo \ {i})} :
                 i \in largest}

\* Series.nlargest(n) of pandas, keep="first", as row positions: with
\* n >= len(series) the whole series is sorted with sort_values, otherwise
\* the n largest are selected and ordered with a stable sort
NLargestOrders(values, n) ==
  IF n <= 0 THEN {<<>>}
  ELSE IF n >= Len(values) THEN DescendingOrders(values, DOMAIN values)
  ELSE {SubSeq(StableDescending(values), 1, n)}

\* DataFrame.nlargest(n, name): the frames it can return
NLargest(frame, n, name) ==
  {[columns |-> frame.columns,
    rows |-> [p \in 1..Len(order) |-> frame.rows[order[p]]]] :
     order \in NLargestOrders(ColumnValues(frame, name), n)}

\* frame[names].reset_index(drop=True): the rows as a sequence, each cut down
\* to the columns asked for
SelectColumns(frame, names) ==
  [p \in 1..Len(frame.rows) |-> [c \in names |-> frame.rows[p][c]]]

TableColumns == {"title", "author", "views", "replies"}

\* lines 395 and 418: the tables the report can show for a column
TopTables(frame, name) ==
  {SelectColumns(top, TableColumns) : top \in NLargest(frame, TopN, name)}

\* line 285: nlargest(1, 'views').iloc[0]; IndexError on an empty frame
TopThreads(frame) ==
  {IF top.rows = <<>> THEN [exc |-> "IndexError", val |-> None]
   ELSE [exc |-> "none", val |-> Some(top.rows[1])] :
     top \in NLargest(frame, 1, "views")}

\* the elements of a set of integers in ascending order
Ascending(S) ==
  [p \in 1..Cardinality(S) |->
     CHOOSE x \in S : Cardinality({y \in S : y < x}) = p - 1]

\* lines 544-545: groupby('hour').size().reset_index(), one row per hour that
\* occurs, in ascending order of the hour
GroupByHour(frame) ==
  LET hours == Ascending({frame.rows[i]["hour"] : i \in 1..Len(frame.rows)})
  IN [p \in 1..Len(hours) |->
        [hour |-> hours[p],
         thread_count |->
           Cardinality({i \in 1..Len(frame.rows) : frame.rows[i]["hour"] = hours[p]})]]

\* line 547
AllHours == [p \in 1..HoursPerDay |-> [hour |-> p - 1]]

\* a merge that keeps only the hours found on both sides
MergeInner(left, right) ==
  LET kept == SelectSeq(left, LAMBDA l : \E j \in DOMAIN right : right[j].hour = l.hour)
  IN [p \in 1..Len(kept) |->
        [hour |-> kept[p].hour,
         thread_count |->
           Some(right[CHOOSE j \in DOMAIN right : right[j].hour = kept[p].hour].thread_count)]]

\* left.merge(right, on='hour', how='left') for a right side with one row per
\* hour: the rows of the left side in their order, the count missing (NaN,
\* here None) where the right side has no row for the hour
MergeLeft(left, right) ==
  [p \in 1..Len(left) |->
     [hour |-> left[p].hour,
      thread_count |->
        IF \E j \in DOMAIN right : right[j].hour = left[p].hour
        THEN Some(right[CHOOSE j \in DOMAIN right : right[j].hour = left[p].hour].thread_count)
        ELSE None]]

\* .fillna(0)
FillNa(table) ==
  [p \in 1..Len(table) |->
     [hour |-> table[p].hour,
      thread_count |-> IF table[p].thread_count = None THEN 0
                       ELSE table[p].thread_count[1]]]

\* lines 544-548 on a frame that has its hour column
HourlyCounts(frame) == FillNa(MergeLeft(AllHours, GroupByHour(frame)))

(***************************************************************************)
(* filter_by_date on a dataset, then create_wrapped_report on its result.  *)
(***************************************************************************)
\* lines 185-193: an empty frame is returned as it is; otherwise the date
\* column is assigned on the frame passed in and the selected rows are
\* copied into a new frame
FilterByDate ==
  /\ pc = "filter"
  /\ IF IsEmpty(frames[df])
     THEN /\ filtered_df' = df
          /\ frames' = frames
     ELSE LET dated == SetColumn(frames[df], "date", DateColumn(frames[df]))
          IN /\ frames' = Append([frames EXCEPT ![df] = dated],
                                 SelectRows(dated, start_date, end_date))
             /\ filtered_df' = Len(frames) + 1
  /\ pc' = "report"
  /\ UNCHANGED <<restVars, convVars, scrapeVars, df, df_before, start_date, end_date>>

\* create_wrapped_report: nothing is done for an empty frame (lines 340-342);
\* otherwise the two top tables are built (lines 395, 418), the hour column
\* is assigned on the frame passed in (line 543) and the hourly counts are
\* built from it (lines 544-548)
CreateWrappedReport ==
  /\ pc = "report"
  /\ IF IsEmpty(frames[filtered_df])
     THEN UNCHANGED <<frames, reportVars>>
     ELSE /\ top_views' \in {Some(t) : t \in TopTables(frames[filtered_df], "views")}
          /\ top_replies' \in {Some(t) : t \in TopTables(frames[filtered_df], "replies")}
          /\ frames' = [frames EXCEPT ![filtered_df] =
                          SetColumn(@, "hour", HourColumn(@))]
          /\ hourly_counts' = Some(HourlyCounts(frames'[filtered_df]))
  /\ pc' = "reported"
  /\ UNCHANGED <<concVars, mainVars, convVars, scrapeVars, df, df_before,
                 start_date, end_date, filtered_df>>

InitFilter ==
  /\ pc = "filter"
  /\ df_before \in Datasets
  /\ frames = <<df_before>>
  /\ df = 1
  /\ start_date \in Dates
  /\ end_date \in Dates
  /\ filtered_df = 0
  /\ AnalyzerInit
  /\ NoConversion
  /\ NoRest

NextFilter == FilterByDate \/ CreateWrappedReport

SpecFilter == InitFilter /\ [][NextFilter]_vars

(***************************************************************************)
(* Properties of scrape_pages (specification Spec).                        *)
(***************************************************************************)
\* records of the pages of a request log that were fetched, in log order
RECURSIVE RecordsOf(_)
RecordsOf(log) ==
  IF log = <<>> THEN <<>>
  ELSE RecordsOf(SubSeq(log, 1, Len(log) - 1))
       \o (IF log[Len(log)].soup = None THEN <<>>
           ELSE ExtractThreads(log[Len(log)].soup[1], <<>>))

FailedFetches(log) == {i \in 1..Len(log) : log[i].soup = None}

\* C1: the i-th request of a call is for page i, so pages are requested in
\* ascending order, once each; no call requests more than num_pages pages
\* and a call that has returned has requested exactly num_pages pages,
\* whichever requests failed.
C1_FetchAttempts ==
  /\ \A i \in 1..Len(fetch_log) : fetch_log[i].page = i
  /\ Len(fetch_log) <= num_pages
  /\ pc = "done" => Len(fetch_log) = num_pages

\* a call has returned after three requests, the first and the second of
\* which failed
C1_Witness ==
  /\ pc = "done"
  /\ num_pages = 3
  /\ Len(fetch_log) = 3
  /\ FailedFetches(fetch_log) = {1, 2}

\* C2: the frame returned by a call holds exactly the records of the pages
\* fetched by that call, page after page and in node order within a page;
\* a failed fetch contributes nothing.
C2_ReturnedDataset ==
  pc = "done" => ret = Some(DataFrame(RecordsOf(fetch_log)))

\* the second call on the analyzer has returned the records of its first and
\* third page, the second fetch having failed, after a first call that left
\* records behind
C2_Witness ==
  /\ pc = "done"
  /\ runs = 2
  /\ Len(fetch_log) = 3
  /\ FailedFetches(fetch_log) = {2}
  /\ ExtractThreads(fetch_log[1].soup[1], <<>>) # <<>>
  /\ ExtractThreads(fetch_log[3].soup[1], <<>>) # <<>>
  /\ ExtractThreads(fetch_log[1].soup[1], <<>>) # ExtractThreads(fetch_log[3].soup[1], <<>>)
  /\ Len(ret[1].rows) >= 3

\* the iterations of the loop that are complete
CompletedPages ==
  IF pc \in {"fetched", "progress"} THEN Len(fetch_log) - 1 ELSE Len(fetch_log)

\* C10: progress is reported once per completed iteration of the loop, after
\* the fetch (and extraction) of the page and before the next fetch, with
\* the value page / num_pages; the values increase strictly and the call
\* returns after num_pages reports, the last of which is 1.
C10_ProgressReports ==
  /\ Len(progress_log) = CompletedPages
  /\ \A i \in 1..Len(progress_log) : progress_log[i] = <<i, num_pages>>
  /\ \A i, j \in 1..Len(progress_log) :
       i < j => progress_log[i][1] * progress_log[j][2]
                  < progress_log[j][1] * progress_log[i][2]
  /\ pc = "done" =>
       /\ Len(progress_log) = num_pages
       /\ num_pages > 0 =>
            progress_log[num_pages][1] = progress_log[num_pages][2]
  /\ pc = "progress" => posts_data = RecordsOf(fetch_log)

\* a call has returned after three reports although its second and third
\* fetch failed
C10_Witness ==
  /\ pc = "done"
  /\ num_pages = 3
  /\ FailedFetches(fetch_log) = {2, 3}
  /\ Len(progress_log) = 3
  /\ progress_bar = <<3, 3>>

\* C8: every record of a returned dataset has replies >= 0 and views >= 0.
C8_NonNegativeCounts ==
  ret # None =>
    \A i \in 1..Len(ret[1].rows) :
      ret[1].rows[i].replies >= 0 /\ ret[1].rows[i].views >= 0

(***************************************************************************)
(* Properties of extract_post_data (specification SpecExtract).            *)
(***************************************************************************)
\* the node has a title and a datetime attribute that parses to a time with
\* a UTC offset
TitledAndTimed(thread) ==
  /\ thread.title # None
  /\ thread.time # None
  /\ thread.time[1].kind = "aware"

\* C3: a page yields one record for each node that has a title and a
\* parseable timestamp, in node order, and none for any other node.
C3_OneRecordPerTimedThread ==
  pc = "progress" =>
    LET timed == SelectSeq(soup[1], TitledAndTimed)
    IN /\ Len(posts_data) = Len(timed)
       /\ \A i \in 1..Len(timed) :
            /\ posts_data[i].title = PyStrip(timed[i].title[1])
            /\ posts_data[i].timestamp = ToUtcTimestamp(timed[i].time[1]).ts

\* C9: every node with a title and a parseable timestamp yields a record,
\* whose author is "Unknown" when the node has no author element and whose
\* replies and views are 0 when it has no statistics block.
C9_DefaultsForMissingFields ==
  pc = "progress" =>
    LET timed == SelectSeq(soup[1], TitledAndTimed)
    IN /\ Len(posts_data) = Len(timed)
       /\ \A i \in 1..Len(timed) :
            /\ timed[i].author = None => posts_data[i].author = UnknownAuthor
            /\ timed[i].stats = None =>
                 posts_data[i].replies = 0 /\ posts_data[i].views = 0

(***************************************************************************)
(* Properties of _convert_abbreviated_number (specification SpecConv).     *)
(***************************************************************************)
\* C4: the call returns an integer for every text; no exception leaves it.
C4_NeverFails == result # None => result[1].exc = "none"

\* a decimal numeral: optional sign, digits with at most one point
IsDecimal(s) == PyFloat(s).ok /\ PyFloat(s).kind = "fin"

\* the decimal numeral s times the power of ten m, truncated toward zero,
\* in exact arithmetic
DecimalTimes(s, m) ==
  LET body  == Unsigned(PyStrip(s))
      dots  == {i \in 1..Len(body) : body[i] = "."}
      dot   == IF dots = {} THEN Len(body) + 1 ELSE CHOOSE i \in dots : TRUE
      N     == DigitsVal(SubSeq(body, 1, dot - 1) \o SubSeq(body, dot + 1, Len(body)))
      D     == Pow10(Len(body) - dot + (IF dots = {} THEN 1 ELSE 0))
      mag   == IF m % D = 0 THEN N * (m \div D) ELSE (N * m) \div D
  IN IF IsNeg(PyStrip(s)) THEN 0 - mag ELSE mag

\* the value the documentation gives for a count text
DocumentedValue(text0) ==
  LET t == RemoveCommas(PyUpper(PyStrip(text0)))
      hits == {i \in 1..Len(multipliers) : EndsWith(t, multipliers[i].suffix)}
      prefix == SubSeq(t, 1, Len(t) - 1)
  IN IF hits # {}
     THEN IF IsDecimal(prefix)
          THEN DecimalTimes(prefix, multipliers[CHOOSE i \in hits : TRUE].multiplier)
          ELSE 0
     ELSE IF PyInt(t).ok THEN PyInt(t).val ELSE 0

\* C5: an integer returned for a text is the decimal prefix times the factor
\* of its suffix, truncated toward zero, or the integer value of the text
\* without suffix, or 0 when that does not parse.
C5_DocumentedValue ==
  (result # None /\ result[1].exc = "none") =>
    result[1].val = DocumentedValue(text)

(***************************************************************************)
(* Properties of filter_by_date (specification SpecFilter).                *)
(***************************************************************************)
\* the row restricted to the columns of a scraped record
Project(row) == [c \in RecordColumns |-> row[c]]

\* C6: the frame returned by filter_by_date holds exactly the records of the
\* frame passed in whose UTC calendar date d satisfies start <= d <= end, in
\* their order; it is empty when there is no such record.
C6_ClosedDateWindow ==
  pc \in {"report", "reported"} =>
    [i \in 1..Len(frames[filtered_df].rows) |-> Project(frames[filtered_df].rows[i])]
      = SelectSeq(df_before.rows,
                  LAMBDA r : /\ start_date <= DateOf(r.timestamp)
                             /\ DateOf(r.timestamp) <= end_date)

\* a frame of three records, the first in the first hour of the start date,
\* the second in the last hour of the end date, the third on the day after,
\* has been filtered to the first two
C6_Witness ==
  /\ pc = "report"
  /\ start_date < end_date
  /\ Len(df_before.rows) = 3
  /\ df_before.rows[1].timestamp = start_date * 24
  /\ df_before.rows[2].timestamp = end_date * 24 + 23
  /\ df_before.rows[3].timestamp = (end_date + 1) * 24
  /\ Len(frames[filtered_df].rows) = 2

\* C7: the frame passed to filter_by_date has, after the call and after the
\* report built from the result, the records and the columns it had before.
C7_InputNotMutated ==
  pc \in {"report", "reported"} => frames[df] = df_before

(***************************************************************************)
(* Two scrape invocations whose steps interleave.  An invocation is made   *)
(* either through scrape_forum_data, which constructs its own analyzer, or *)
(* through scrape_pages on the analyzer that exists from the start.        *)
(***************************************************************************)
MaxCallPages == 1

Calls == {1, 2}

\* the frame of an invocation that has not started
IdleCall ==
  [analyzer |-> 0, pc |-> "idle", num_pages |-> 0, page |-> 0, soup |-> None,
   fetch_log |-> <<>>, ret |-> None]

\* lines 162-167 of scrape_pages on analyzer a: self.posts_data = []
StartedCall(a, n) ==
  [analyzer |-> a, pc |-> "loop", num_pages |-> n, page |-> 1, soup |-> None,
   fetch_log |-> <<>>, ret |-> None]

\* lines 179-183: a new IGNForumAnalyzer, then scrape_pages on it
ScrapeForumData(c, n) ==
  /\ calls[c].pc = "idle"
  /\ analyzers' = Append(analyzers, <<>>)
  /\ calls' = [calls EXCEPT ![c] = StartedCall(Len(analyzers) + 1, n)]
  /\ UNCHANGED <<convVars, pc, scrapeVars, filterVars, reportVars, mainVars>>

\* scrape_pages called on the analyzer both invocations can reach
ScrapePages(c, n) ==
  /\ calls[c].pc = "idle"
  /\ analyzers' = [analyzers EXCEPT ![1] = <<>>]
  /\ calls' = [calls EXCEPT ![c] = StartedCall(1, n)]
  /\ UNCHANGED <<convVars, pc, scrapeVars, filterVars, reportVars, mainVars>>

\* lines 169-171
CallFetchPage(c, answer) ==
  /\ calls[c].pc = "loop"
  /\ calls[c].page <= calls[c].num_pages
  /\ calls' = [calls EXCEPT ![c].soup = answer,
                            ![c].fetch_log =
                               Append(@, [page |-> calls[c].page, soup |-> answer]),
                            ![c].pc = "fetched"]
  /\ UNCHANGED <<convVars, pc, scrapeVars, filterVars, analyzers, reportVars,
                 mainVars>>

\* lines 172-174: the page's records are appended to self.posts_data of the
\* invocation's analyzer, then the progress is reported
CallExtractPostData(c) ==
  /\ calls[c].pc = "fetched"
  /\ calls[c].soup # None
  /\ analyzers' = [analyzers EXCEPT ![calls[c].analyzer] =
                     ExtractThreads(calls[c].soup[1], @)]
  /\ calls' = [calls EXCEPT ![c].page = @ + 1, ![c].pc = "loop"]
  /\ UNCHANGED <<convVars, pc, scrapeVars, filterVars, reportVars, mainVars>>

\* lines 172, 174: a failed fetch adds nothing
CallSkipPage(c) ==
  /\ calls[c].pc = "fetched"
  /\ calls[c].soup = None
  /\ calls' = [calls EXCEPT ![c].page = @ + 1, ![c].pc = "loop"]
  /\ UNCHANGED <<convVars, pc, scrapeVars, filterVars, analyzers, reportVars,
                 mainVars>>

\* lines 176-177: the frame is built from self.posts_data as it is now
CallReturn(c) ==
  /\ calls[c].pc = "loop"
  /\ calls[c].page > calls[c].num_pages
  /\ calls' = [calls EXCEPT ![c].ret =
                               Some(DataFrame(analyzers[calls[c].analyzer])),
                            ![c].pc = "done"]
  /\ UNCHANGED <<convVars, pc, scrapeVars, filterVars, analyzers, reportVars,
                 mainVars>>

InitConcurrent ==
  /\ pc = "idle"
  /\ AnalyzerInit
  /\ NoConversion
  /\ NoFilter
  /\ NoReport
  /\ NoMain
  /\ calls = [c \in Calls |-> IdleCall]
  /\ analyzers = << <<>> >>

NextConcurrent ==
  \E c \in Calls :
    \/ \E n \in 0..MaxCallPages : ScrapeForumData(c, n)
    \/ \E n \in 0..MaxCallPages : ScrapePages(c, n)
    \/ \E answer \in {None} \cup {Some(p) : p \in WebPages} :
         CallFetchPage(c, answer)
    \/ CallExtractPostData(c)
    \/ CallSkipPage(c)
    \/ CallReturn(c)

SpecConcurrent == InitConcurrent /\ [][NextConcurrent]_vars

\* C11: an invocation that has returned has returned exactly the records of
\* the pages it fetched itself, whatever the other invocation did meanwhile
\* and whichever way the two were made.
C11_NoSharedAccumulator ==
  \A c \in Calls :
    calls[c].pc = "done" =>
      calls[c].ret = Some(DataFrame(RecordsOf(calls[c].fetch_log)))

\* the same for invocations made through scrape_forum_data only
C11_OwnAnalyzer ==
  \A c \in Calls :
    (calls[c].pc = "done" /\ calls[c].analyzer # 1) =>
      calls[c].ret = Some(DataFrame(RecordsOf(calls[c].fetch_log)))

(***************************************************************************)
(* create_wrapped_report on datasets with different views, replies and     *)
(* hours, among them datasets of more than TopN records.                   *)
(***************************************************************************)
MaxReportRows == 4

MaxOver == 1

\* kinds of records: the views and replies tie between kinds in different
\* ways, and the hours leave most hours of the day without a record
ReportKinds ==
  {[views |-> 100, replies |-> 5, hour |-> 5],
   [views |-> 50, replies |-> 9, hour |-> 23],
   [views |-> 100, replies |-> 9, hour |-> 0]}

\* the i-th record of a dataset: its title tells the records apart
ReportRecord(kind, i) ==
  [title |-> <<UpperLetters[i]>>, author |-> <<"a","l">>,
   timestamp |-> 24 + kind.hour, replies |-> kind.replies, views |-> kind.views]

ReportFrame(kinds) ==
  DataFrame([i \in 1..Len(kinds) |-> ReportRecord(kinds[i], i)])

\* a sequence of kinds repeated up to length n
Repeated(kinds, n) == [i \in 1..n |-> kinds[((i - 1) % Len(kinds)) + 1]]

ReportDatasets ==
  {ReportFrame(kinds) : kinds \in SeqsUpTo(ReportKinds, MaxReportRows)}
  \cup {ReportFrame(Repeated(kinds, TopN + over)) :
          kinds \in SeqsUpTo(ReportKinds, MaxReportRows) \ {<<>>},
          over \in 1..MaxOver}

InitReport ==
  /\ pc = "report"
  /\ df_before \in ReportDatasets
  /\ frames = <<df_before>>
  /\ df = 1
  /\ filtered_df = 1
  /\ start_date = 0
  /\ end_date = MaxDay
  /\ AnalyzerInit
  /\ NoConversion
  /\ NoRest

NextReport == CreateWrappedReport

SpecReport == InitReport /\ [][NextReport]_vars

\* record j comes before record i in a ranking by a field: its value is
\* larger, or equal and j is earlier in the dataset
Before(rows, field, j, i) ==
  \/ rows[j][field] > rows[i][field]
  \/ rows[j][field] = rows[i][field] /\ j < i

\* the table is the top-k ranking of the records by the field
IsRanking(table, rows, field, k) ==
  /\ Len(table) = (IF Len(rows) < k THEN Len(rows) ELSE k)
  /\ \A i \in 1..Len(rows) :
       LET p == Cardinality({j \in 1..Len(rows) : Before(rows, field, j, i)}) + 1
       IN p <= k => table[p] = [c \in TableColumns |-> rows[i][c]]

C12_MoreThanTopN ==
  (pc = "reported" /\ Len(df_before.rows) > TopN) =>
    /\ top_views # None
    /\ IsRanking(top_views[1], df_before.rows, "views", TopN)
    /\ top_replies # None
    /\ IsRanking(top_replies[1], df_before.rows, "replies", TopN)

\* number of records of a dataset in an hour of the day
RecordsInHour(rows, h) ==
  Cardinality({i \in 1..Len(rows) : HourOf(rows[i]["timestamp"]) = h})

RECURSIVE SumCounts(_, _)
SumCounts(table, n) ==
  IF n = 0 THEN 0 ELSE SumCounts(table, n - 1) + table[n].thread_count

\* C13: for a non-empty dataset the hourly counts have HoursPerDay entries,
\* the entry at position h + 1 is for hour h and holds the number of records
\* whose timestamp has that UTC hour (0 when there is none), and the counts
\* add up to the number of records.
C13_HourlyCounts ==
  (pc = "reported" /\ ~IsEmpty(df_before)) =>
    /\ hourly_counts # None
    /\ Len(hourly_counts[1]) = HoursPerDay
    /\ \A h \in 0..(HoursPerDay - 1) :
         /\ hourly_counts[1][h + 1].hour = h
         /\ hourly_counts[1][h + 1].thread_count = RecordsInHour(df_before.rows, h)
    /\ SumCounts(hourly_counts[1], Len(hourly_counts[1])) = Len(df_before.rows)

\* a report built from three records, two of them in the same hour, which
\* leaves twenty-two hours without a record
C13_Witness ==
  /\ pc = "reported"
  /\ Len(df_before.rows) = 3
  /\ hourly_counts # None
  /\ \E h \in 0..(HoursPerDay - 1) : RecordsInHour(df_before.rows, h) = 2
  /\ \E h \in 0..(HoursPerDay - 1) : RecordsInHour(df_before.rows, h) = 1
  /\ Cardinality({h \in 0..(HoursPerDay - 1) : RecordsInHour(df_before.rows, h) = 0})
       = HoursPerDay - 2

(***************************************************************************)
(* main: the script runs once for every click; st.session_state lives on   *)
(* between the runs.  Frames no run can reach any more are dropped.        *)
(***************************************************************************)
\* the request logs scrape_pages can have after n pages
FetchLogs(n) ==
  {[i \in 1..n |-> [page |-> i, soup |-> answers[i]]] :
     answers \in [1..n -> {None} \cup {Some(p) : p \in WebPages}]}

\* lines 179-183: the frames scrape_forum_data can return for a number of
\* pages, which are the frames scrape_pages returns on a new analyzer
ScrapeResults ==
  [n \in 1..MaxPages |-> {DataFrame(RecordsOf(log)) : log \in FetchLogs(n)}]

\* the frames and the session state with an empty filter result stored
StoredFiltered(raw, s, e) ==
  LET dated == SetColumn(raw, "date", DateColumn(raw))
      selected == SelectRows(dated, s, e)
  IN [frames |-> <<dated, selected>>,
      session |-> Some([filtered_df |-> 2, raw_df |-> 1,
                        start_date |-> s, end_date |-> e])]

\* lines 607-621 for a scraped frame that is not empty: filter_by_date, then
\* the filter result is stored, or the scraped frame itself when the filter
\* result is empty
Stored(raw, s, e) ==
  LET dated == SetColumn(raw, "date", DateColumn(raw))
      selected == SelectRows(dated, s, e)
  IN IF ~IsEmpty(selected)
     THEN [frames |-> <<dated, selected>>,
           session |-> Some([filtered_df |-> 2, raw_df |-> 1,
                             start_date |-> s, end_date |-> e])]
     ELSE [frames |-> <<dated>>,
           session |-> Some([filtered_df |-> 1, raw_df |-> 1,
                             start_date |-> s, end_date |-> e])]

\* lines 577-623: a click on Generate with the sidebar set to n pages and the
\* range s..e, the scrape returning raw
ClickGenerate(n, s, e, raw) ==
  /\ pc = "main"
  /\ n \in DOMAIN ScrapeResults
  /\ raw \in ScrapeResults[n]
  /\ ret' = Some(raw)
  /\ session_before' = session
  /\ IF ~IsEmpty(raw)
     THEN /\ frames' = Stored(raw, s, e).frames
          /\ session' = Stored(raw, s, e).session
     ELSE UNCHANGED <<frames, session>>
  /\ clicked' = "generate"
  /\ top_thread' = None
  /\ pc' = "display"
  /\ UNCHANGED <<convVars, runs, num_pages, page, soup, posts_data,
                 progress_bar, status_text, fetch_log, progress_log, df,
                 df_before, start_date, end_date, filtered_df, concVars,
                 reportVars>>

\* a click on Image, which is on the page once a report is stored (line 650)
ClickImage ==
  /\ pc = "main"
  /\ session # None
  /\ clicked' = "image"
  /\ session_before' = session
  /\ top_thread' = None
  /\ pc' = "display"
  /\ UNCHANGED <<convVars, scrapeVars, filterVars, concVars, reportVars, session>>

\* any other interaction runs the script with no button clicked (line 600)
Rerun ==
  /\ pc = "main"
  /\ clicked' = "none"
  /\ session_before' = session
  /\ top_thread' = None
  /\ pc' = "display"
  /\ UNCHANGED <<convVars, scrapeVars, filterVars, concVars, reportVars, session>>

\* lines 626-632: the stored frames are passed to create_wrapped_report;
\* line 673 when nothing is stored
Display ==
  /\ pc = "display"
  /\ IF session = None
     THEN /\ pc' = "main"
          /\ clicked' = "none"
          /\ UNCHANGED <<df, filtered_df, reportVars>>
     ELSE /\ pc' = "report"
          /\ df' = session[1].raw_df
          /\ filtered_df' = session[1].filtered_df
          /\ UNCHANGED <<clicked, reportVars>>
  /\ UNCHANGED <<convVars, scrapeVars, frames, df_before, start_date, end_date,
                 concVars, session, session_before, top_thread>>

\* lines 650-656 and 285: the infographic's top thread; the script ends and
\* the tables of the report go with it
CreateInfographic ==
  /\ pc = "reported"
  /\ clicked = "image"
  /\ top_thread' \in {Some(t) : t \in TopThreads(frames[session[1].filtered_df])}
  /\ top_views' = None
  /\ top_replies' = None
  /\ hourly_counts' = None
  /\ session_before' = session
  /\ clicked' = "none"
  /\ pc' = "main"
  /\ UNCHANGED <<convVars, scrapeVars, filterVars, concVars, session>>

\* the script ends without the infographic
EndScript ==
  /\ pc = "reported"
  /\ clicked # "image"
  /\ top_views' = None
  /\ top_replies' = None
  /\ hourly_counts' = None
  /\ session_before' = session
  /\ clicked' = "none"
  /\ pc' = "main"
  /\ UNCHANGED <<convVars, scrapeVars, filterVars, concVars, session, top_thread>>

InitMain ==
  /\ pc = "main"
  /\ AnalyzerInit
  /\ NoConversion
  /\ NoFilter
  /\ NoRest

NextMain ==
  \/ \E n \in 1..MaxPages : \E s \in Dates : \E e \in s..MaxDay :
       \E raw \in ScrapeResults[n] : ClickGenerate(n, s, e, raw)
  \/ ClickImage
  \/ Rerun
  \/ Display
  \/ CreateWrappedReport
  \/ CreateInfographic
  \/ EndScript

SpecMain == InitMain /\ [][NextMain]_vars

\* the stored report frame holds at least one record
StoredNotEmpty ==
  session # None =>
    /\ ~IsEmpty(frames[session[1].filtered_df])
    /\ Len(frames[session[1].filtered_df].rows) >= 1

\* the Generate click of the running script has been handled
Generated == pc = "display" /\ clicked = "generate"

\* no record of the frame has its UTC date in the window
NoneInWindow(frame, start, end) ==
  \A i \in 1..Len(frame.rows) :
    ~(start <= DateOf(frame.rows[i]["timestamp"])
      /\ DateOf(frame.rows[i]["timestamp"]) <= end)

\* C14: over any sequence of script runs the frame stored in
\* session_state.filtered_df is never empty; a Generate click whose scrape
\* returns an empty frame leaves session_state as it was; a Generate click
\* whose filter result is empty stores the scraped records as the report
\* frame; and so the report always builds its tables and the infographic
\* always finds a top thread.
C14_StoredNeverEmpty ==
  /\ StoredNotEmpty
  /\ (Generated /\ IsEmpty(ret[1])) => session = session_before
  /\ (Generated /\ ~IsEmpty(ret[1])) =>
       /\ session # None
       /\ NoneInWindow(ret[1], session[1].start_date, session[1].end_date) =>
            /\ session[1].filtered_df = session[1].raw_df
            /\ [i \in 1..Len(ret[1].rows) |->
                  Project(frames[session[1].filtered_df].rows[i])] = ret[1].rows
  /\ (pc = "reported" /\ session # None) => hourly_counts # None
  /\ top_thread # None => top_thread[1].exc = "none"

\* a report stored from an empty filter result, kept through a later scrape
\* that returned nothing, and an infographic made from it
C14_Witness ==
  /\ pc = "main"
  /\ session # None
  /\ session[1].filtered_df = session[1].raw_df
  /\ ret # None
  /\ IsEmpty(ret[1])
  /\ top_thread # None
  /\ top_thread[1].exc = "none"

====
